---- MODULE Spec2Model ----
(***************************************************************************)
(* Model of executor/executor.py (class Executor: the prepare -> execute   *)
(* -> classify -> finish/fail -> cleanup lifecycle of run()) and of        *)
(* executor/ibex.py (class IbexRun: the job-array plan, the sbatch script  *)
(* and the job-id scraping).                                               *)
(*                                                                         *)
(* A path is a sequence of components (<<"T">>, <<"W", "ls.out">>); the    *)
(* filesystem is the set of existing directories plus a function from the  *)
(* existing files to their contents.  A text is a sequence of pieces; the  *)
(* captured stdout is a sequence of single characters.  Python's None is   *)
(* the empty path <<>> for a Path attribute, the string "None" for a       *)
(* message, and a record with isNone = TRUE for the completed process.     *)
(***************************************************************************)
EXTENDS Integers, Sequences, FiniteSets, TLC

VARIABLES
    cls,                \* class of the instance: "Executor", "FailingProgram", "IbexRun"
    hook_message,       \* what the isFailed() of the class returns
    program, args, catch_out, keep_tempdir, cwd, tempdir, verbose, dir_out,
    f_stdout,           \* capture file path, <<>> when the attribute was never set
    plan,               \* IbexRun: time_per_command, ncommands, max_jobs, commands_per_job, njobs, time_per_job
    out_ibex, script_file,
    completed_process, failed_message, error, result,
    dirs, files,        \* the filesystem
    errlog,             \* what logging.error emitted
    pc,                 \* position inside __init__/run()
    exc,                \* the exception in flight
    outcome,            \* how run() ended: "none", "returned", "raised"
    steps,              \* the steps of run() executed so far, in order
    handling,           \* TRUE while run() is inside its except (MemoryError, CalledProcessError) handler
    tempdir_created,    \* TRUE once prepare() created the temporary directory with mkdtemp
    peers,              \* the Executor instances other callers run at the same time
    twin                \* the initial filesystem, and the finished run of the same
                        \* invocation with the other value of verbose

vars == <<cls, hook_message, program, args, catch_out, keep_tempdir, cwd, tempdir,
          verbose, dir_out, f_stdout, plan, out_ibex, script_file,
          completed_process, failed_message, error, result, dirs, files,
          errlog, pc, exc, outcome, steps, handling, tempdir_created, peers, twin>>

others == <<peers, twin>>

config == <<cls, hook_message, program, args, catch_out, keep_tempdir, cwd,
            verbose, dir_out, f_stdout, plan, out_ibex, script_file>>

-----------------------------------------------------------------------------
(* Bounds of the model *)

MaxOutLen == 3          \* longest captured stdout
MaxReturncode == 2      \* largest exit code of the external program
MaxCommands == 4        \* largest ncommands
MaxJobs == 2            \* largest max_jobs
MaxTimePerCommand == 1  \* largest time_per_command (minutes)
PlanMaxTime == 7        \* largest time_per_command when only the plan is computed
MaxInstances == 2       \* Executor instances running at the same time
DefaultMaxJobs == 1990  \* the default of max_jobs

OutChars == {"a", "7"}
Digits == {"0", "1", "2", "3", "4", "5", "6", "7", "8", "9"}

Outputs == UNION {[1..n -> OutChars] : n \in 0..MaxOutLen}
Returncodes == 0..MaxReturncode
ArgLists == {<<"ls", ".">>, <<"l", "hello">>}
Messages == {"The output is not as expected", "M2"}
CatchOuts == {"False", "True", "log.txt", "sub/log.txt"}

-----------------------------------------------------------------------------
(* Paths and the filesystem *)

None == <<>>
W == <<"W">>            \* an existing working directory outside every temporary directory
T == <<"T">>            \* a caller-supplied temporary directory whose parent exists
X == <<"N", "X">>       \* a caller-supplied temporary directory whose parent is missing
K == <<"K">>            \* the fresh directory tempfile.mkdtemp() creates
O == <<"P", "O">>       \* a caller-supplied output directory (parent missing at first)
OI == <<"O">>           \* the out_ibex directory of IbexRun
OS == <<"my out">>      \* an out_ibex directory whose name contains a blank

Parent(p) == SubSeq(p, 1, Len(p) - 1)

IsPrefix(d, p) == Len(d) <= Len(p) /\ SubSeq(p, 1, Len(d)) = d

Ancestors(p) == {SubSeq(p, 1, n) : n \in 1..Len(p)}

\* pathlib: cwd / name; a name with a slash has several components
RelPath(name) == IF name = "sub/log.txt" THEN <<"sub", "log.txt">> ELSE <<name>>

exists(p, ds, fs) == p \in ds \/ p \in DOMAIN fs

\* Path.mkdir(): the parent has to exist
mkdir_ok(p, ds) == Parent(p) = <<>> \/ Parent(p) \in ds

\* open(path, 'w'): the directory of the file has to exist
open_ok(p, ds) == Parent(p) \in ds

write(p, text, fs) == [q \in (DOMAIN fs) \cup {p} |-> IF q = p THEN text ELSE fs[q]]

rmtree_dirs(d, ds) == {q \in ds : ~IsPrefix(d, q)}

rmtree_files(d, fs) == [q \in {r \in DOMAIN fs : ~IsPrefix(d, r)} |-> fs[q]]

NoFiles == [q \in {} |-> <<>>]

Truthy(s) == s \notin {"None", "False", ""}

-----------------------------------------------------------------------------
(* Values *)

NoProcess == [isNone |-> TRUE, args |-> <<>>, returncode |-> 0, stdout |-> <<>>]

CompletedProcess(a, rc, out) == [isNone |-> FALSE, args |-> a, returncode |-> rc, stdout |-> out]

NoExc == [kind |-> "none", msg |-> "", returncode |-> 0, cmd |-> <<>>, output |-> <<>>, raisedIn |-> "none"]

Exc(k, m, where) == [kind |-> k, msg |-> m, returncode |-> 0, cmd |-> <<>>, output |-> <<>>, raisedIn |-> where]

\* subprocess.CalledProcessError(returncode, cmd, output)
CalledProcessError(rc, a, out) == [kind |-> "CalledProcessError", msg |-> "", returncode |-> rc, cmd |-> a, output |-> out, raisedIn |-> "check"]

RunErrorClass == [kind |-> "RunErrorClass", msg |-> "", returncode |-> 0, cmd |-> <<>>, output |-> <<>>, raisedIn |-> "none"]

NoResult == [kind |-> "unset", args |-> <<>>, returncode |-> 0, stdout |-> <<>>, jobid |-> <<>>]

NoPlan == [time_per_command |-> 0, ncommands |-> 0, max_jobs |-> 0, commands_per_job |-> 0, njobs |-> 0, time_per_job |-> <<>>]

ENOENT == "No such file or directory"

LaunchMessage(strerror) == "Couldn't run or communicate with external program: " \o strerror

\* an instance another caller runs: its position in run(), its tempdir field
\* and its keep_tempdir flag
Instances == 1..MaxInstances
NewPeer == [pc |-> "new", tempdir |-> None, keep_tempdir |-> FALSE]

Range(q) == {q[k] : k \in 1..Len(q)}

\* no finished run to compare with yet
NoTwin == [taken |-> FALSE, dirs0 |-> {}, files0 |-> NoFiles, launched |-> FALSE,
           completed_process |-> NoProcess, exc |-> NoExc, outcome |-> "none",
           result |-> NoResult, dirs |-> {}, files |-> NoFiles, tempdir |-> None]

-----------------------------------------------------------------------------
(* IbexRun: the job-array plan (ibex.py) *)

\* int(np.ceil(n / d)) for a positive divisor
ceil_div(n, d) == -((-n) \div d)

\* the decimal digits of a natural number, most significant first
RECURSIVE DecSeq(_)
DecSeq(v) == IF v < 10 THEN <<ToString(v)>> ELSE Append(DecSeq(v \div 10), ToString(v % 10))

\* f'{v:02}': at least two digits, padded with zeros on the left
Pad2(v) == IF Len(DecSeq(v)) < 2 THEN <<"0">> \o DecSeq(v) ELSE DecSeq(v)

\* the string a sequence of characters or pieces spells
RECURSIVE Str(_)
Str(cs) == IF cs = <<>> THEN "" ELSE Head(cs) \o Str(Tail(cs))

\* time_str with the minutes not reduced modulo 60
time_str_NoModulo(cpj, t_per_command) ==
    LET total_minutes == cpj * t_per_command
        hours == total_minutes \div 60
    IN  Pad2(hours) \o <<":">> \o Pad2(total_minutes) \o <<":", "0", "0">>

\* IbexRun.time_str, the result as a sequence of characters; for integer
\* arguments np.floor and np.ceil leave the quotient and the remainder as they are
time_str(cpj, t_per_command) ==
    LET total_minutes == cpj * t_per_command
        hours == total_minutes \div 60
        minutes == total_minutes % 60
    IN  Pad2(hours) \o <<":">> \o Pad2(minutes) \o <<":", "0", "0">>

\* commands_per_job_of with the quotient rounded down instead of up
commands_per_job_of_Floor(ncommands, max_jobs) == ncommands \div max_jobs

\* self.commands_per_job = int(np.ceil(self.ncommands / self.max_jobs))
commands_per_job_of(ncommands, max_jobs) == ceil_div(ncommands, max_jobs)

\* ncommands / commands_per_job raises ZeroDivisionError when commands_per_job = 0
njobs_raises(ncommands, cpj) == cpj = 0

njobs_of(ncommands, cpj) == ceil_div(ncommands, cpj)

-----------------------------------------------------------------------------
(* Construction *)

Init ==
    /\ cls = "none" /\ hook_message = "False"
    /\ program = "" /\ args = <<>> /\ catch_out = "False" /\ keep_tempdir = FALSE
    /\ cwd = None /\ tempdir = None /\ verbose = FALSE /\ dir_out = None
    /\ f_stdout = None /\ plan = NoPlan /\ out_ibex = None /\ script_file = None
    /\ completed_process = NoProcess /\ failed_message = "None"
    /\ error = NoExc /\ result = NoResult
    /\ \E t_exists \in BOOLEAN :
          /\ dirs = IF t_exists THEN {W, T} ELSE {W}
          /\ files = IF t_exists THEN [q \in {T \o <<"user.txt">>} |-> <<"u">>] ELSE NoFiles
    /\ errlog = <<>>
    /\ pc = "new" /\ exc = NoExc /\ outcome = "none" /\ steps = <<>>
    /\ handling = FALSE
    /\ tempdir_created = FALSE
    /\ peers = [i \in Instances |-> NewPeer]
    /\ twin = [NoTwin EXCEPT !.dirs0 = dirs, !.files0 = files]

\* f_stdout_of as it would be if a caller-supplied file name were ignored
f_stdout_of_IgnoresName(co, wd, prog) ==
    IF co # "False" THEN wd \o <<prog \o ".out">> ELSE None

\* the capture file chosen by Executor.__init__
f_stdout_of(co, wd, prog) ==
    IF co = "True" THEN wd \o <<prog \o ".out">>
    ELSE IF co # "False" THEN wd \o RelPath(co)
    ELSE None

\* Executor.__init__, for Executor itself and for a subclass overriding isFailed()
Executor__init__ ==
    /\ pc = "new"
    /\ \E c \in {"Executor", "FailingProgram"}, a \in ArgLists, co \in CatchOuts,
          keep \in BOOLEAN, verb \in BOOLEAN, td \in {None, T, X},
          wd \in {W, T}, dout \in {None, O}, m \in Messages :
          /\ cls' = c
          /\ hook_message' = IF c = "FailingProgram" THEN m ELSE "False"
          /\ program' = a[1]
          /\ args' = a
          /\ catch_out' = co
          /\ keep_tempdir' = keep
          /\ cwd' = wd
          /\ tempdir' = td
          /\ verbose' = verb
          /\ dir_out' = dout
          /\ f_stdout' = f_stdout_of(co, wd, a[1])
    /\ pc' = "constructed"
    /\ UNCHANGED <<others, plan, out_ibex, script_file, completed_process, failed_message,
                   error, result, dirs, files, errlog, exc, outcome, steps,
                   handling, tempdir_created>>

\* the text of a path component, cut at its blanks
Pieces(c) == IF c = "my out" THEN <<"my", " ", "out">> ELSE <<c>>

\* str(path): the components joined by "/"
RECURSIVE path_str(_)
path_str(p) ==
    IF Len(p) = 0 THEN <<>>
    ELSE IF Len(p) = 1 THEN Pieces(p[1])
    ELSE Pieces(p[1]) \o <<"/">> \o path_str(Tail(p))

\* str.split(): the maximal runs without whitespace; cur is the run being read
RECURSIVE split_from(_, _)
split_from(text, cur) ==
    IF text = <<>> THEN (IF cur = "" THEN <<>> ELSE <<cur>>)
    ELSE IF Head(text) = " "
         THEN (IF cur = "" THEN <<>> ELSE <<cur>>) \o split_from(Tail(text), "")
         ELSE split_from(Tail(text), cur \o Head(text))

split(text) == split_from(text, "")

\* f'sbatch {self.script_file}'.split()
sbatch_args(sf) == split(<<"sbatch", " ">> \o path_str(sf))

\* IbexRun.__init__ with its arguments: the plan, the script path, the sbatch
\* command, then Executor.__init__
IbexRun__init__With(tpc, n, mj, out, co, keep, verb, td, wd) ==
    LET cpj == commands_per_job_of(n, mj)
        sf == out \o <<"script.sh">>
        a == sbatch_args(sf)
    IN  /\ pc = "new"
        /\ cls' = "IbexRun"
        /\ out_ibex' = out
        /\ IF njobs_raises(n, cpj)
           THEN /\ plan' = [NoPlan EXCEPT !.time_per_command = tpc, !.ncommands = n,
                                          !.max_jobs = mj, !.commands_per_job = cpj]
                /\ exc' = Exc("ZeroDivisionError", "division by zero", "__init__")
                /\ pc' = "ctorfailed"
                /\ UNCHANGED <<hook_message, program, args, catch_out, keep_tempdir,
                               cwd, tempdir, verbose, dir_out, f_stdout, script_file>>
           ELSE /\ plan' = [time_per_command |-> tpc, ncommands |-> n, max_jobs |-> mj,
                            commands_per_job |-> cpj, njobs |-> njobs_of(n, cpj),
                            time_per_job |-> time_str(cpj, tpc)]
                /\ script_file' = sf
                /\ args' = a
                /\ program' = a[1]
                /\ hook_message' = "False"
                /\ catch_out' = co
                /\ keep_tempdir' = keep
                /\ cwd' = wd
                /\ tempdir' = td
                /\ verbose' = verb
                /\ dir_out' = None
                /\ f_stdout' = f_stdout_of(co, wd, a[1])
                /\ pc' = "constructed"
                /\ exc' = exc
        /\ UNCHANGED <<others, completed_process, failed_message, error, result, dirs, files,
                       errlog, outcome, steps, handling, tempdir_created>>

\* IbexRun.__init__ for the instances whose run() is followed
IbexRun__init__ ==
    /\ pc = "new"
    /\ \E tpc \in 1..MaxTimePerCommand, n \in 0..MaxCommands, mj \in 1..MaxJobs,
          co \in CatchOuts, keep \in BOOLEAN, verb \in BOOLEAN, td \in {None, T},
          wd \in {W, T} :
          IbexRun__init__With(tpc, n, mj, OI, co, keep, verb, td, wd)

PlanCommands == (0..MaxCommands) \cup {DefaultMaxJobs}
PlanJobs == (1..MaxJobs) \cup {DefaultMaxJobs}
PlanTimes == 0..PlanMaxTime

\* IbexRun.__init__ over the wider range of plans and of output directories
IbexRun__init__Plan ==
    /\ pc = "new"
    /\ \E tpc \in PlanTimes, n \in PlanCommands, mj \in PlanJobs, out \in {OI, OS} :
          IbexRun__init__With(tpc, n, mj, out, "False", FALSE, FALSE, None, W)

\* a direct call of the static method IbexRun.time_str
time_str_call ==
    /\ pc = "new"
    /\ \E c \in PlanCommands, t \in PlanTimes :
          plan' = [NoPlan EXCEPT !.commands_per_job = c, !.time_per_command = t,
                                 !.time_per_job = time_str(c, t)]
    /\ pc' = "called"
    /\ UNCHANGED <<others, cls, hook_message, program, args, catch_out, keep_tempdir, cwd,
                   tempdir, verbose, dir_out, f_stdout, out_ibex, script_file,
                   completed_process, failed_message, error, result, dirs, files,
                   errlog, exc, outcome, steps, handling, tempdir_created>>

-----------------------------------------------------------------------------
(* run(): prepare *)

\* run(), lines 125-126: reset the per-call fields and enter the try block
Run ==
    /\ pc = "constructed"
    /\ completed_process' = NoProcess
    /\ failed_message' = "None"
    /\ pc' = "prepare"
    /\ UNCHANGED <<others, config, tempdir, error, result, dirs, files, errlog, exc, outcome,
                   steps, handling, tempdir_created>>

\* Executor.prepare creating a fresh temporary directory also when the caller
\* supplied one
Prepare_AlwaysFresh ==
    /\ pc = "prepare"
    /\ cls # "IbexRun"
    /\ steps' = Append(steps, "prepare")
    /\ LET td_fails == tempdir # None /\ ~exists(tempdir, dirs, files) /\ ~mkdir_ok(tempdir, dirs)
           td == K
           ds1 == dirs \cup {td}
           ds2 == IF dir_out # None /\ ~exists(dir_out, ds1, files)
                  THEN ds1 \cup Ancestors(dir_out) ELSE ds1
       IN  IF td_fails
           THEN /\ exc' = Exc("OSError", ENOENT, "prepare")
                /\ pc' = "except"
                /\ UNCHANGED <<tempdir, dirs, tempdir_created>>
           ELSE /\ tempdir' = td
                /\ tempdir_created' = (tempdir = None)
                /\ dirs' = ds2
                /\ pc' = "execute"
                /\ exc' = exc
    /\ UNCHANGED <<others, config, completed_process, failed_message, error, result, files,
                   errlog, outcome, handling>>

\* Executor.prepare
Prepare ==
    /\ pc = "prepare"
    /\ cls # "IbexRun"
    /\ steps' = Append(steps, "prepare")
    /\ LET td_fails == tempdir # None /\ ~exists(tempdir, dirs, files) /\ ~mkdir_ok(tempdir, dirs)
           td == IF tempdir # None THEN tempdir ELSE K
           ds1 == dirs \cup {td}
           ds2 == IF dir_out # None /\ ~exists(dir_out, ds1, files)
                  THEN ds1 \cup Ancestors(dir_out) ELSE ds1
       IN  IF td_fails
           THEN /\ exc' = Exc("OSError", ENOENT, "prepare")
                /\ pc' = "except"
                /\ UNCHANGED <<tempdir, dirs, tempdir_created>>
           ELSE /\ tempdir' = td
                /\ tempdir_created' = (tempdir = None)
                /\ dirs' = ds2
                /\ pc' = "execute"
                /\ exc' = exc
    /\ UNCHANGED <<others, config, completed_process, failed_message, error, result, files,
                   errlog, outcome, handling>>

jobname == "IbexRun"
partition == "batch"
ntasks == 1
cpus_per_task == 1
mem_per_cpu == 2

\* script_of with the array directive ending at njobs instead of njobs - 1
script_of_ArrayOffByOne(pl, out) ==
    << "#!/bin/bash\n",
       "#SBATCH --job-name=" \o jobname \o "\n",
       "#SBATCH --partition=" \o partition \o "\n",
       "#SBATCH --output=" \o Str(path_str(out)) \o "/%J.out\n",
       "#SBATCH --time=" \o Str(pl.time_per_job) \o "\n",
       "#SBATCH --ntasks=" \o ToString(ntasks) \o "\n",
       "#SBATCH --cpus-per-task=" \o ToString(cpus_per_task) \o "\n",
       "#SBATCH --mem-per-cpu=" \o ToString(mem_per_cpu) \o "G\n",
       "#SBATCH --array=0-" \o ToString(pl.njobs) \o "\n",
       "\n",
       "echo 'Hello world!'\n" >>

\* the text IbexRun.prepare renders, one piece per line
script_of(pl, out) ==
    << "#!/bin/bash\n",
       "#SBATCH --job-name=" \o jobname \o "\n",
       "#SBATCH --partition=" \o partition \o "\n",
       "#SBATCH --output=" \o Str(path_str(out)) \o "/%J.out\n",
       "#SBATCH --time=" \o Str(pl.time_per_job) \o "\n",
       "#SBATCH --ntasks=" \o ToString(ntasks) \o "\n",
       "#SBATCH --cpus-per-task=" \o ToString(cpus_per_task) \o "\n",
       "#SBATCH --mem-per-cpu=" \o ToString(mem_per_cpu) \o "G\n",
       "#SBATCH --array=0-" \o ToString(pl.njobs - 1) \o "\n",
       "\n",
       "echo 'Hello world!'\n" >>

\* IbexRun.prepare: no temporary directory is created here
IbexRun_prepare ==
    /\ pc = "prepare"
    /\ cls = "IbexRun"
    /\ steps' = Append(steps, "prepare")
    /\ dirs' = IF exists(out_ibex, dirs, files) THEN dirs ELSE dirs \cup Ancestors(out_ibex)
    /\ files' = write(script_file, script_of(plan, out_ibex), files)
    /\ pc' = "execute"
    /\ UNCHANGED <<others, config, tempdir, completed_process, failed_message, error, result,
                   errlog, exc, outcome, handling, tempdir_created>>

-----------------------------------------------------------------------------
(* run(): execute and classify *)

\* Executor.execute: subprocess.run raises OSError (the program or the working
\* directory is missing) or returns the completed process
Execute ==
    /\ pc = "execute"
    /\ steps' = Append(steps, "execute")
    /\ \/ /\ exc' = Exc("OSError", ENOENT, "execute")
          /\ pc' = "except"
          /\ UNCHANGED completed_process
       \/ /\ cwd \in dirs
          /\ \E rc \in Returncodes, out \in Outputs :
                completed_process' = CompletedProcess(args, rc, out)
          /\ pc' = "check"
          /\ exc' = exc
    /\ UNCHANGED <<others, config, tempdir, failed_message, error, result, dirs, files, errlog,
                   outcome, handling, tempdir_created>>

\* run() without the call of check_returncode()
CheckReturncode_Ignored ==
    /\ pc = "check"
    /\ steps' = Append(steps, "check")
    /\ exc' = exc
    /\ pc' = "isFailed"
    /\ UNCHANGED <<others, config, tempdir, completed_process, failed_message, error, result,
                   dirs, files, errlog, outcome, handling, tempdir_created>>

\* completed_process.check_returncode()
CheckReturncode ==
    /\ pc = "check"
    /\ steps' = Append(steps, "check")
    /\ IF completed_process.returncode # 0
       THEN /\ exc' = CalledProcessError(completed_process.returncode,
                                         completed_process.args, completed_process.stdout)
            /\ pc' = "except"
       ELSE /\ exc' = exc
            /\ pc' = "isFailed"
    /\ UNCHANGED <<others, config, tempdir, completed_process, failed_message, error, result,
                   dirs, files, errlog, outcome, handling, tempdir_created>>

\* self.failed_message = self.isFailed(), and the branch on it
IsFailed ==
    /\ pc = "isFailed"
    /\ steps' = Append(steps, "isFailed")
    /\ failed_message' = hook_message
    /\ IF Truthy(hook_message)
       THEN /\ error' = RunErrorClass
            /\ pc' = "fail"
       ELSE /\ error' = error
            /\ pc' = "finish"
    /\ UNCHANGED <<others, config, tempdir, completed_process, result, dirs, files, errlog, exc,
                   outcome, handling, tempdir_created>>

-----------------------------------------------------------------------------
(* run(): finish and fail *)

\* ' '.join(args)
join(a) == [i \in 1..(2 * Len(a) - 1) |-> IF i % 2 = 1 THEN a[(i + 1) \div 2] ELSE " "]

\* the message fail() composes
error_string(prog, a, cp) ==
    <<"\n", prog, " EXECUTION FAILED.\n", "Command: ">> \o join(a) \o <<"\n">>
    \o (IF cp.isNone THEN <<>>
        ELSE <<"Returncode: ", ToString(cp.returncode), "\n", "stdout: \n">> \o cp.stdout)

\* Executor.finish returning the configured command line and no captured text
Finish_DropsOutput ==
    /\ pc = "finish"
    /\ cls # "IbexRun"
    /\ steps' = Append(steps, "finish")
    /\ IF catch_out # "False" /\ ~open_ok(f_stdout, dirs)
       THEN /\ exc' = Exc("OSError", ENOENT, "finish")
            /\ pc' = "except"
            /\ UNCHANGED <<files, result>>
       ELSE /\ files' = IF catch_out # "False"
                        THEN write(f_stdout, completed_process.stdout, files)
                        ELSE files
            /\ result' = [kind |-> "triple", args |-> completed_process.args,
                          returncode |-> completed_process.returncode,
                          stdout |-> <<>>, jobid |-> <<>>]
            /\ pc' = "cleanup"
            /\ exc' = exc
    /\ UNCHANGED <<others, config, tempdir, completed_process, failed_message, error, dirs,
                   errlog, outcome, handling, tempdir_created>>

\* Executor.finish
Finish ==
    /\ pc = "finish"
    /\ cls # "IbexRun"
    /\ steps' = Append(steps, "finish")
    /\ IF catch_out # "False" /\ ~open_ok(f_stdout, dirs)
       THEN /\ exc' = Exc("OSError", ENOENT, "finish")
            /\ pc' = "except"
            /\ UNCHANGED <<files, result>>
       ELSE /\ files' = IF catch_out # "False"
                        THEN write(f_stdout, completed_process.stdout, files)
                        ELSE files
            /\ result' = [kind |-> "triple", args |-> completed_process.args,
                          returncode |-> completed_process.returncode,
                          stdout |-> completed_process.stdout, jobid |-> <<>>]
            /\ pc' = "cleanup"
            /\ exc' = exc
    /\ UNCHANGED <<others, config, tempdir, completed_process, failed_message, error, dirs,
                   errlog, outcome, handling, tempdir_created>>

\* positions of the decimal digits of a text
digit_positions(out) == {i \in 1..Len(out) : out[i] \in Digits}

\* first_digits as it would be if every digit of the text were collected
first_digits_All(out) ==
    LET RECURSIVE keep(_)
        keep(t) == IF t = <<>> THEN <<>>
                   ELSE IF Head(t) \in Digits THEN <<Head(t)>> \o keep(Tail(t))
                   ELSE keep(Tail(t))
    IN  keep(out)

\* re.search(r'\d+', out).group(): the first maximal run of digits
first_digits(out) ==
    LET first == CHOOSE i \in digit_positions(out) : \A j \in digit_positions(out) : i <= j
        last == CHOOSE j \in first..Len(out) :
                    /\ \A k \in first..j : out[k] \in Digits
                    /\ j = Len(out) \/ out[j + 1] \notin Digits
    IN  SubSeq(out, first, last)

\* IbexRun.finish: re.search returns None when the reply has no digit
IbexRun_finish ==
    /\ pc = "finish"
    /\ cls = "IbexRun"
    /\ steps' = Append(steps, "finish")
    /\ IF digit_positions(completed_process.stdout) = {}
       THEN /\ exc' = Exc("AttributeError", "'NoneType' object has no attribute 'group'", "finish")
            /\ pc' = "except"
            /\ UNCHANGED result
       ELSE /\ result' = [NoResult EXCEPT !.kind = "jobid",
                                          !.jobid = first_digits(completed_process.stdout)]
            /\ pc' = "cleanup"
            /\ exc' = exc
    /\ UNCHANGED <<others, config, tempdir, completed_process, failed_message, error, dirs, files,
                   errlog, outcome, handling, tempdir_created>>

\* the exception the last two statements of fail() raise
fail_raises(err, msg) ==
    IF Truthy(msg)
    THEN IF err.kind = "RunErrorClass"
         THEN Exc("RunError", msg, "fail")
         ELSE Exc("TypeError", "object is not callable", "fail")
    ELSE IF err.kind = "RunErrorClass"
         THEN Exc("RunError", "", "fail")
         ELSE err

\* Executor.fail writing the capture file only when verbose is set
Fail_WritesOnlyIfVerbose ==
    /\ pc = "fail"
    /\ steps' = Append(steps, "fail")
    /\ LET text == error_string(program, args, completed_process)
       IN  /\ errlog' = IF verbose THEN Append(errlog, text) ELSE errlog
           /\ IF catch_out # "False" /\ ~open_ok(f_stdout, dirs)
              THEN /\ exc' = Exc("OSError", ENOENT, "fail")
                   /\ UNCHANGED files
              ELSE /\ files' = IF catch_out # "False" /\ verbose THEN write(f_stdout, text, files) ELSE files
                   /\ exc' = fail_raises(error, failed_message)
    /\ pc' = IF handling THEN "cleanup" ELSE "except"
    /\ UNCHANGED <<others, config, tempdir, completed_process, failed_message, error, result, dirs,
                   outcome, handling, tempdir_created>>

\* Executor.fail writing the plain captured output to the capture file
Fail_WritesOutput ==
    /\ pc = "fail"
    /\ steps' = Append(steps, "fail")
    /\ LET text == error_string(program, args, completed_process)
       IN  /\ errlog' = IF verbose THEN Append(errlog, text) ELSE errlog
           /\ IF catch_out # "False" /\ ~open_ok(f_stdout, dirs)
              THEN /\ exc' = Exc("OSError", ENOENT, "fail")
                   /\ UNCHANGED files
              ELSE /\ files' = IF catch_out # "False" THEN write(f_stdout, completed_process.stdout, files) ELSE files
                   /\ exc' = fail_raises(error, failed_message)
    /\ pc' = IF handling THEN "cleanup" ELSE "except"
    /\ UNCHANGED <<others, config, tempdir, completed_process, failed_message, error, result, dirs,
                   outcome, handling, tempdir_created>>

\* Executor.fail, called from the try block (handling = FALSE) or from the
\* except (MemoryError, CalledProcessError) handler (handling = TRUE)
Fail ==
    /\ pc = "fail"
    /\ steps' = Append(steps, "fail")
    /\ LET text == error_string(program, args, completed_process)
       IN  /\ errlog' = IF verbose THEN Append(errlog, text) ELSE errlog
           /\ IF catch_out # "False" /\ ~open_ok(f_stdout, dirs)
              THEN /\ exc' = Exc("OSError", ENOENT, "fail")
                   /\ UNCHANGED files
              ELSE /\ files' = IF catch_out # "False" THEN write(f_stdout, text, files) ELSE files
                   /\ exc' = fail_raises(error, failed_message)
    /\ pc' = IF handling THEN "cleanup" ELSE "except"
    /\ UNCHANGED <<others, config, tempdir, completed_process, failed_message, error, result, dirs,
                   outcome, handling, tempdir_created>>

-----------------------------------------------------------------------------
(* run(): the except clauses, the finally clause and the return *)

\* ExceptOSError as it would be if cleanup() were the last statement of the try
\* block instead of the finally clause: the RunError leaves run() without cleanup
ExceptOSError_NoFinally ==
    /\ pc = "except"
    /\ exc.kind = "OSError"
    /\ exc' = Exc("RunError", LaunchMessage(exc.msg), exc.raisedIn)
    /\ pc' = "return"
    /\ UNCHANGED <<others, config, tempdir, completed_process, failed_message, error, result, dirs,
                   files, errlog, outcome, steps, handling, tempdir_created>>

\* ExceptOSError as it would be if OSError were listed with MemoryError and
\* CalledProcessError: the launch failure goes through fail()
ExceptOSError_CallsFail ==
    /\ pc = "except"
    /\ exc.kind = "OSError"
    /\ error' = exc
    /\ handling' = TRUE
    /\ pc' = "fail"
    /\ UNCHANGED <<others, config, tempdir, completed_process, failed_message, result, dirs, files,
                   errlog, exc, outcome, steps, tempdir_created>>

\* except OSError as e: raise RunError(...)
ExceptOSError ==
    /\ pc = "except"
    /\ exc.kind = "OSError"
    /\ exc' = Exc("RunError", LaunchMessage(exc.msg), exc.raisedIn)
    /\ pc' = "cleanup"
    /\ UNCHANGED <<others, config, tempdir, completed_process, failed_message, error, result, dirs,
                   files, errlog, outcome, steps, handling, tempdir_created>>

\* except (MemoryError, CalledProcessError) as e: self.error = e; self.fail()
ExceptCalledProcessError ==
    /\ pc = "except"
    /\ exc.kind \in {"MemoryError", "CalledProcessError"}
    /\ error' = exc
    /\ handling' = TRUE
    /\ pc' = "fail"
    /\ UNCHANGED <<others, config, tempdir, completed_process, failed_message, result, dirs, files,
                   errlog, exc, outcome, steps, tempdir_created>>

\* no except clause matches: the exception leaves the try statement
ExceptUnhandled ==
    /\ pc = "except"
    /\ exc.kind \notin {"OSError", "MemoryError", "CalledProcessError"}
    /\ pc' = "cleanup"
    /\ UNCHANGED <<others, config, tempdir, completed_process, failed_message, error, result, dirs,
                   files, errlog, exc, outcome, steps, handling, tempdir_created>>

\* Executor.cleanup removing only a directory that prepare() created itself
Cleanup_OnlyCreated ==
    /\ pc = "cleanup"
    /\ steps' = Append(steps, "cleanup")
    /\ IF tempdir # None /\ exists(tempdir, dirs, files) /\ ~keep_tempdir /\ tempdir_created
       THEN /\ dirs' = rmtree_dirs(tempdir, dirs)
            /\ files' = rmtree_files(tempdir, files)
       ELSE UNCHANGED <<dirs, files>>
    /\ pc' = "return"
    /\ UNCHANGED <<others, config, tempdir, completed_process, failed_message, error, result,
                   errlog, exc, outcome, handling, tempdir_created>>

\* Executor.cleanup with the test of the keep flag inverted
Cleanup_KeepInverted ==
    /\ pc = "cleanup"
    /\ steps' = Append(steps, "cleanup")
    /\ IF tempdir # None /\ exists(tempdir, dirs, files) /\ keep_tempdir
       THEN /\ dirs' = rmtree_dirs(tempdir, dirs)
            /\ files' = rmtree_files(tempdir, files)
       ELSE UNCHANGED <<dirs, files>>
    /\ pc' = "return"
    /\ UNCHANGED <<others, config, tempdir, completed_process, failed_message, error, result,
                   errlog, exc, outcome, handling, tempdir_created>>

\* Executor.cleanup, called from the finally clause
Cleanup ==
    /\ pc = "cleanup"
    /\ steps' = Append(steps, "cleanup")
    /\ IF tempdir # None /\ exists(tempdir, dirs, files) /\ ~keep_tempdir
       THEN /\ dirs' = rmtree_dirs(tempdir, dirs)
            /\ files' = rmtree_files(tempdir, files)
       ELSE UNCHANGED <<dirs, files>>
    /\ pc' = "return"
    /\ UNCHANGED <<others, config, tempdir, completed_process, failed_message, error, result,
                   errlog, exc, outcome, handling, tempdir_created>>

\* return self.result, or the exception in flight reaches the caller
Return ==
    /\ pc = "return"
    /\ IF exc.kind # "none"
       THEN /\ outcome' = "raised"
            /\ exc' = exc
       ELSE IF result.kind = "unset"
            THEN /\ outcome' = "raised"
                 /\ exc' = Exc("AttributeError", "no attribute 'result'", "return")
            ELSE /\ outcome' = "returned"
                 /\ exc' = exc
    /\ pc' = "done"
    /\ UNCHANGED <<others, config, tempdir, completed_process, failed_message, error, result, dirs,
                   files, errlog, steps, handling, tempdir_created>>

Next ==
    \/ Executor__init__
    \/ IbexRun__init__
    \/ Run
    \/ Prepare
    \/ IbexRun_prepare
    \/ Execute
    \/ CheckReturncode
    \/ IsFailed
    \/ Finish
    \/ IbexRun_finish
    \/ Fail
    \/ ExceptOSError
    \/ ExceptCalledProcessError
    \/ ExceptUnhandled
    \/ Cleanup
    \/ Return

Spec == Init /\ [][Next]_vars

-----------------------------------------------------------------------------
(* Several Executor instances run by concurrent callers, none with a tempdir *)

\* the names tempfile.mkdtemp() can produce: <program>_<class>_<suffix>
TempNames == {<<"K" \o ToString(n)>> : n \in Instances}

\* mkdtemp taking a name whether or not a directory of that name exists
mkdtemp_AnyName(ds) == TempNames

\* tempfile.mkdtemp(): mkdir with a random suffix, retried until the name is
\* one that does not exist; the names it can return in a filesystem ds
mkdtemp(ds) == {n \in TempNames : n \notin ds}

\* Executor.__init__ with tempdir=None, followed by the call of run()
PeerInit(i) ==
    /\ peers[i].pc = "new"
    /\ \E keep \in BOOLEAN :
          peers' = [peers EXCEPT ![i] = [pc |-> "prepare", tempdir |-> None, keep_tempdir |-> keep]]
    /\ UNCHANGED <<config, tempdir, completed_process, failed_message, error, result,
                   dirs, files, errlog, pc, exc, outcome, steps, handling,
                   tempdir_created, twin>>

\* Executor.prepare of instance i: self.tempdir is None
PeerPrepare(i) ==
    /\ peers[i].pc = "prepare"
    /\ \E name \in mkdtemp(dirs) :
          /\ peers' = [peers EXCEPT ![i].tempdir = name, ![i].pc = "execute"]
          /\ dirs' = dirs \cup {name}
    /\ UNCHANGED <<config, tempdir, completed_process, failed_message, error, result,
                   files, errlog, pc, exc, outcome, steps, handling, tempdir_created,
                   twin>>

\* execute() and the classification of instance i, up to the finally clause
PeerExecute(i) ==
    /\ peers[i].pc = "execute"
    /\ peers' = [peers EXCEPT ![i].pc = "cleanup"]
    /\ UNCHANGED <<config, tempdir, completed_process, failed_message, error, result,
                   dirs, files, errlog, pc, exc, outcome, steps, handling,
                   tempdir_created, twin>>

\* Executor.cleanup of instance i
PeerCleanup(i) ==
    /\ peers[i].pc = "cleanup"
    /\ IF exists(peers[i].tempdir, dirs, files) /\ ~peers[i].keep_tempdir
       THEN /\ dirs' = rmtree_dirs(peers[i].tempdir, dirs)
            /\ files' = rmtree_files(peers[i].tempdir, files)
       ELSE UNCHANGED <<dirs, files>>
    /\ peers' = [peers EXCEPT ![i].pc = "done"]
    /\ UNCHANGED <<config, tempdir, completed_process, failed_message, error, result,
                   errlog, pc, exc, outcome, steps, handling, tempdir_created, twin>>

NextPeers ==
    \E i \in Instances :
        \/ PeerInit(i)
        \/ PeerPrepare(i)
        \/ PeerExecute(i)
        \/ PeerCleanup(i)

SpecPeers == Init /\ [][NextPeers]_vars

-----------------------------------------------------------------------------
(* The same invocation run a second time with the other value of verbose *)

\* execute() of the second run: the external program behaves as in the first
ExecuteAgain ==
    /\ pc = "execute"
    /\ Execute
    /\ twin.taken =>
          /\ twin.launched
          /\ completed_process' = twin.completed_process

\* a second instance constructed with the same arguments but verbose, in the
\* filesystem the first one started in; what the first run left is recorded
SecondRun ==
    /\ pc = "done"
    /\ ~twin.taken
    /\ twin' = [twin EXCEPT !.taken = TRUE, !.launched = ("execute" \in Range(steps)),
                            !.completed_process = completed_process, !.exc = exc,
                            !.outcome = outcome, !.result = result, !.dirs = dirs,
                            !.files = files, !.tempdir = tempdir]
    /\ verbose' = ~verbose
    /\ tempdir' = IF tempdir_created THEN None ELSE tempdir
    /\ dirs' = twin.dirs0
    /\ files' = twin.files0
    /\ completed_process' = NoProcess /\ failed_message' = "None"
    /\ error' = NoExc /\ result' = NoResult
    /\ errlog' = <<>>
    /\ pc' = "constructed" /\ exc' = NoExc /\ outcome' = "none" /\ steps' = <<>>
    /\ handling' = FALSE
    /\ tempdir_created' = FALSE
    /\ UNCHANGED <<cls, hook_message, program, args, catch_out, keep_tempdir, cwd,
                   dir_out, f_stdout, plan, out_ibex, script_file, peers>>

NextVerbose ==
    \/ Executor__init__
    \/ Run
    \/ Prepare
    \/ ExecuteAgain
    \/ CheckReturncode
    \/ IsFailed
    \/ Finish
    \/ Fail
    \/ ExceptOSError
    \/ ExceptCalledProcessError
    \/ ExceptUnhandled
    \/ Cleanup
    \/ Return
    \/ SecondRun

SpecVerbose == Init /\ [][NextVerbose]_vars

\* the plan, the command line and the script alone, over the wider inputs
NextPlan ==
    \/ IbexRun__init__Plan
    \/ time_str_call
    \/ Run
    \/ IbexRun_prepare

SpecPlan == Init /\ [][NextPlan]_vars

-----------------------------------------------------------------------------
(* Properties *)

Count(step) == Cardinality({i \in 1..Len(steps) : steps[i] = step})

Invoked(step) == \E i \in 1..Len(steps) : steps[i] = step

Before(a, b) == \A i, j \in 1..Len(steps) : (steps[i] = a /\ steps[j] = b) => i < j

RunEnded == pc = "done"

\* C1: in every call of run(), whichever step fails and also when none fails,
\* cleanup() is executed exactly once, after finish()/fail() of the call and
\* before run() returns or its error reaches the caller.
C1_CleanupExactlyOnce ==
    /\ Count("cleanup") <= 1
    /\ Before("finish", "cleanup") /\ Before("fail", "cleanup")
    /\ pc \in {"return", "done"} => (Count("cleanup") = 1 /\ steps[Len(steps)] = "cleanup")
    /\ outcome # "none" => Count("cleanup") = 1

\* a run in which fail() ran has ended with its error raised, after one cleanup
C1_Witness ==
    /\ RunEnded /\ outcome = "raised" /\ Invoked("fail") /\ Count("cleanup") = 1

\* C2: when the default prepare() created the temporary directory itself,
\* then after run() returned or raised, with any outcome, the temporary
\* directory exists if and only if keep_tempdir is true.
C2_TempdirIffKeep ==
    (RunEnded /\ tempdir_created) => (exists(tempdir, dirs, files) <=> keep_tempdir)

\* a failed run that created its temporary directory and removed it again
C2_Witness ==
    /\ RunEnded /\ tempdir_created /\ outcome = "raised" /\ ~keep_tempdir
    /\ tempdir = K /\ K \notin dirs

\* the launch of the external program raised an OS-level error
LaunchFailed ==
    /\ Invoked("execute") /\ completed_process.isNone
    /\ exc.raisedIn = "execute" /\ exc.kind \in {"OSError", "RunError"}

\* C3: when the program cannot be launched, run() raises RunError and never
\* CalledProcessError; isFailed(), finish() and fail() are not invoked and no
\* capture file is written.
C3_LaunchFailure ==
    LaunchFailed =>
        /\ ~Invoked("isFailed") /\ ~Invoked("finish") /\ ~Invoked("fail")
        /\ f_stdout = None \/ f_stdout \notin DOMAIN files
        /\ pc \in {"cleanup", "return", "done"} => exc.kind = "RunError"
        /\ RunEnded => outcome = "raised"

\* run() has raised for a launch failure while output capture was enabled
C3_Witness ==
    /\ RunEnded /\ LaunchFailed /\ outcome = "raised" /\ exc.kind = "RunError"
    /\ catch_out = "True" /\ cwd \in dirs

Exited(rc_ok) == ~completed_process.isNone /\ ((completed_process.returncode = 0) <=> rc_ok)

\* C4: when the program is launched and exits with a non-zero code c, run()
\* raises CalledProcessError carrying exactly c and the captured output, never
\* a RunError; isFailed() and finish() are not invoked.
C4_NonZeroExit ==
    (RunEnded /\ Exited(FALSE)) =>
        /\ outcome = "raised"
        /\ exc.kind = "CalledProcessError"
        /\ exc.returncode = completed_process.returncode
        /\ exc.output = completed_process.stdout
        /\ ~Invoked("isFailed") /\ ~Invoked("finish")

\* C5: when the program exits with code 0 and isFailed() returns a non-empty
\* message M, run() raises RunError whose payload is exactly M, and finish()
\* is not invoked.
C5_DomainFailure ==
    (RunEnded /\ Exited(TRUE) /\ Invoked("isFailed") /\ Truthy(failed_message)) =>
        /\ outcome = "raised"
        /\ exc.kind = "RunError"
        /\ exc.msg = hook_message
        /\ ~Invoked("finish")

\* the call reached the default finish(): exit code 0 and an empty predicate
DefaultFinishCase ==
    /\ RunEnded /\ cls # "IbexRun" /\ Exited(TRUE) /\ ~Truthy(hook_message)

ReturnedTriple ==
    /\ outcome = "returned"
    /\ result.kind = "triple"
    /\ result.args = args
    /\ result.returncode = 0
    /\ result.stdout = completed_process.stdout

\* C6 as stated: whenever the program exits with code 0 and the predicate
\* returns empty, run() with the default finish() returns the triple
\* (configured args, 0, captured output).
C6_Original == DefaultFinishCase => ReturnedTriple

\* the capture file lies directly in the working directory the program ran in
CaptureInCwd == catch_out # "False" /\ Len(RelPath(catch_out)) = 1

\* C6 amended: run() returns that triple provided output capture is disabled
\* or the capture file can be opened for writing; when it cannot, run() raises
\* RunError instead of returning.
C6_ReturnsTriple ==
    DefaultFinishCase =>
        IF catch_out = "False" \/ CaptureInCwd
        THEN ReturnedTriple
        ELSE outcome = "raised" /\ exc.kind = "RunError"

\* a run with output capture has returned a triple with a non-empty output
C6_Witness ==
    /\ DefaultFinishCase /\ catch_out = "True" /\ ReturnedTriple
    /\ Len(result.stdout) = MaxOutLen

\* the capture file named by the configuration
CapturePath ==
    IF catch_out = "True" THEN cwd \o <<program \o ".out">> ELSE cwd \o RelPath(catch_out)

CaptureHoldsOutput ==
    /\ CapturePath \in DOMAIN files
    /\ files[CapturePath] = completed_process.stdout

\* C7 as stated: with output capture enabled, after run() returns the capture
\* file exists under the working directory and holds the captured output, for
\* every configuration of cwd, tempdir and keep_tempdir.
C7_Original ==
    (RunEnded /\ outcome = "returned" /\ catch_out # "False") => CaptureHoldsOutput

\* C7 amended: with the default finish() and output capture enabled, after
\* run() returns the capture file exists and holds the captured output when
\* keep_tempdir is true or the working directory is neither the temporary
\* directory nor inside it; otherwise cleanup() has removed the file.
C7_CaptureFile ==
    (RunEnded /\ outcome = "returned" /\ catch_out # "False" /\ cls # "IbexRun") =>
        IF keep_tempdir \/ ~IsPrefix(tempdir, cwd)
        THEN CaptureHoldsOutput
        ELSE CapturePath \notin DOMAIN files

\* run() has returned with a caller-named capture file holding the output, the
\* working directory being the kept temporary directory
C7_Witness ==
    /\ RunEnded /\ outcome = "returned" /\ cls # "IbexRun"
    /\ catch_out = "log.txt" /\ cwd = T /\ tempdir = T /\ keep_tempdir
    /\ CaptureHoldsOutput /\ Len(completed_process.stdout) > 0

\* C8: every call of run(), on Executor and on IbexRun, returns a populated
\* result, raises RunError or raises CalledProcessError; no other error kind
\* reaches the caller.
C8_ThreeWayOutcome ==
    RunEnded =>
        \/ outcome = "returned" /\ result.kind # "unset"
        \/ outcome = "raised" /\ exc.kind \in {"RunError", "CalledProcessError"}

PlanMade == cls = "IbexRun" /\ pc \notin {"new", "ctorfailed"}

\* C9: for ncommands >= 1 and max_jobs >= 1 the plan satisfies
\* njobs <= max_jobs, commands_per_job * njobs >= ncommands and
\* commands_per_job >= 1.
C9_PlanInvariant ==
    (cls = "IbexRun" /\ plan.ncommands >= 1 /\ plan.max_jobs >= 1) =>
        /\ pc # "ctorfailed"
        /\ plan.njobs <= plan.max_jobs
        /\ plan.commands_per_job * plan.njobs >= plan.ncommands
        /\ plan.commands_per_job >= 1

\* a plan that packs several commands into each of several jobs
C9_Witness ==
    /\ PlanMade /\ plan.ncommands > plan.max_jobs
    /\ plan.commands_per_job >= 2 /\ plan.njobs >= 2

\* q is the quotient n / d rounded up
IsCeil(q, n, d) == q * d >= n /\ (q - 1) * d < n

\* C10: for ncommands >= 0 and max_jobs >= 1 the construction succeeds with
\* commands_per_job = max(1, ceil(ncommands / max_jobs)) and
\* njobs = ceil(ncommands / commands_per_job); ncommands = 0 gives
\* commands_per_job = 1.
C10_PlanFormula ==
    (cls = "IbexRun" /\ plan.ncommands >= 0 /\ plan.max_jobs >= 1) =>
        /\ pc # "ctorfailed"
        /\ plan.commands_per_job >= 1
        /\ \/ IsCeil(plan.commands_per_job, plan.ncommands, plan.max_jobs)
           \/ plan.commands_per_job = 1 /\ plan.ncommands = 0
        /\ IsCeil(plan.njobs, plan.ncommands, plan.commands_per_job)

-----------------------------------------------------------------------------
(* Properties of the plan, the script and the job identifier *)

DigitVal(c) == CHOOSE d \in 0..9 : ToString(d) = c

AllDigits(cs) == \A i \in 1..Len(cs) : cs[i] \in Digits

\* the number a sequence of decimal digits denotes
RECURSIVE IntOf(_)
IntOf(cs) ==
    IF cs = <<>> THEN 0
    ELSE 10 * IntOf(SubSeq(cs, 1, Len(cs) - 1)) + DigitVal(cs[Len(cs)])

TimeRendered == plan.time_per_job # <<>>

TotalMinutes == plan.commands_per_job * plan.time_per_command

\* the hours and the minutes field of the rendered time
HoursField == SubSeq(plan.time_per_job, 1, Len(plan.time_per_job) - 6)
MinutesField == SubSeq(plan.time_per_job, Len(plan.time_per_job) - 4, Len(plan.time_per_job) - 3)

\* C11: for non-negative integers commands_per_job and t_per_command, time_str
\* renders 'HH:MM:00' with HH = floor(total/60) and MM = total mod 60, both
\* zero-padded to at least two digits, MM in 0..59, and HH*60 + MM is never
\* smaller than total = commands_per_job * t_per_command.
C11_TimeStr ==
    TimeRendered =>
        LET s == plan.time_per_job
            n == Len(s)
        IN  /\ n >= 8
            /\ s[n - 5] = ":" /\ SubSeq(s, n - 2, n) = <<":", "0", "0">>
            /\ AllDigits(HoursField) /\ AllDigits(MinutesField)
            /\ Len(HoursField) = 2 \/ HoursField[1] # "0"
            /\ IntOf(HoursField) = TotalMinutes \div 60
            /\ IntOf(MinutesField) = TotalMinutes % 60
            /\ IntOf(MinutesField) \in 0..59
            /\ IntOf(HoursField) * 60 + IntOf(MinutesField) >= TotalMinutes

\* time_str was called for more than a hundred hours and some odd minutes
C11_Witness ==
    /\ pc = "called" /\ TimeRendered
    /\ TotalMinutes > 6000 /\ TotalMinutes % 60 > 0
    /\ Len(HoursField) = 3

AfterIbexPrepare == cls = "IbexRun" /\ pc = "execute"

\* C12: after IbexRun.prepare() the file script.sh in the output directory
\* holds the header lines in the order job name, partition, output path
\* template, time budget, task count, cpus-per-task, memory-per-cpu with
\* suffix G, array range 0-<njobs-1>, then a blank line and the placeholder
\* body; ncommands=1, max_jobs=1990, time_per_command=1 renders
\* --time=00:01:00 and --array=0-0, ncommands=1990 renders --array=0-1989.
C12_Script ==
    AfterIbexPrepare =>
        /\ script_file = out_ibex \o <<"script.sh">>
        /\ script_file \in DOMAIN files
        /\ LET f == files[script_file]
           IN  /\ Len(f) = 11
               /\ f[1] = "#!/bin/bash\n"
               /\ f[2] = "#SBATCH --job-name=IbexRun\n"
               /\ f[3] = "#SBATCH --partition=batch\n"
               /\ f[4] = IF out_ibex = OI THEN "#SBATCH --output=O/%J.out\n"
                         ELSE "#SBATCH --output=my out/%J.out\n"
               /\ f[5] = "#SBATCH --time=" \o Str(plan.time_per_job) \o "\n"
               /\ f[6] = "#SBATCH --ntasks=1\n"
               /\ f[7] = "#SBATCH --cpus-per-task=1\n"
               /\ f[8] = "#SBATCH --mem-per-cpu=2G\n"
               /\ f[9] = "#SBATCH --array=0-" \o ToString(plan.njobs - 1) \o "\n"
               /\ f[10] = "\n"
               /\ f[11] = "echo 'Hello world!'\n"
               /\ (plan.ncommands = 1 /\ plan.max_jobs = 1990 /\ plan.time_per_command = 1) =>
                     (f[5] = "#SBATCH --time=00:01:00\n" /\ f[9] = "#SBATCH --array=0-0\n")
               /\ (plan.ncommands = 1990 /\ plan.max_jobs = 1990) =>
                     f[9] = "#SBATCH --array=0-1989\n"

\* the script of 1990 commands in at most 1990 jobs of one minute was written
C12_Witness ==
    /\ AfterIbexPrepare
    /\ plan.ncommands = 1990 /\ plan.max_jobs = 1990 /\ plan.time_per_command = 1
    /\ script_file \in DOMAIN files
    /\ files[script_file][9] = "#SBATCH --array=0-1989\n"
    /\ files[script_file][5] = "#SBATCH --time=00:01:00\n"

HasDigit(out) == \E i \in 1..Len(out) : out[i] \in Digits

\* id is the first maximal run of decimal digits of out
IsFirstRun(id, out) ==
    /\ Len(id) >= 1 /\ AllDigits(id)
    /\ \E i \in 1..Len(out) :
          /\ i + Len(id) - 1 <= Len(out)
          /\ SubSeq(out, i, i + Len(id) - 1) = id
          /\ \A k \in 1..(i - 1) : out[k] \notin Digits
          /\ i + Len(id) > Len(out) \/ out[i + Len(id)] \notin Digits

\* C13: when the submission succeeds, IbexRun.run() returns the first maximal
\* run of decimal digits of the reply; when the reply has no digit, run() fails
\* with an error; every value IbexRun.run() returns is a non-empty string of
\* decimal digits.
C13_JobId ==
    (RunEnded /\ cls = "IbexRun") =>
        /\ outcome = "returned" =>
              (result.kind = "jobid" /\ IsFirstRun(result.jobid, completed_process.stdout))
        /\ (Exited(TRUE) /\ HasDigit(completed_process.stdout)) => outcome = "returned"
        /\ (Exited(TRUE) /\ ~HasDigit(completed_process.stdout)) => outcome = "raised"

\* run() has returned the first of two runs of digits of the reply
C13_Witness ==
    /\ RunEnded /\ cls = "IbexRun" /\ outcome = "returned"
    /\ completed_process.stdout = <<"7", "a", "7">>
    /\ result.jobid = <<"7">>

\* C14: for every output directory given to IbexRun, also one whose path
\* contains whitespace, the command is the two-element list
\* ['sbatch', <path of script.sh in the output directory>], the script path
\* being the path prepare() writes the script to.
C14_SbatchCommand ==
    PlanMade =>
        /\ script_file = out_ibex \o <<"script.sh">>
        /\ Len(args) = 2
        /\ args[1] = "sbatch"
        /\ args[2] = Str(path_str(script_file))

\* run() went through fail() after a non-zero exit or a domain failure
FailPath ==
    /\ RunEnded /\ Invoked("fail")
    /\ Exited(FALSE) \/ (Exited(TRUE) /\ Truthy(failed_message))

\* the message of fail(): program, command line, exit code, captured output
ComposedMessage ==
    <<"\n", program, " EXECUTION FAILED.\n", "Command: ", args[1], " ", args[2], "\n",
      "Returncode: ", ToString(completed_process.returncode), "\n", "stdout: \n">>
    \o completed_process.stdout

CaptureHoldsMessage ==
    /\ CapturePath \in DOMAIN files
    /\ files[CapturePath] = ComposedMessage
    /\ files[CapturePath] # completed_process.stdout

\* no file besides the caller's own file and the sbatch script exists
NoCaptureFile == \A q \in DOMAIN files : q = T \o <<"user.txt">> \/ q = script_file

\* the working directory is the temporary directory or lies inside it
CwdInTempdir == tempdir # None /\ IsPrefix(tempdir, cwd)

\* C15 as stated: on the fail path with output capture enabled the capture
\* file holds, after run() raised, the composed error message and not the
\* plain output, for verbose true and false; with output capture disabled no
\* capture file is written.
C15_Original ==
    FailPath => IF catch_out # "False" THEN CaptureHoldsMessage ELSE NoCaptureFile

\* C15 amended: the capture file holds the composed message after run() raised
\* provided it could be opened for writing and cleanup() did not remove it
\* (keep_tempdir, or a working directory outside the temporary directory);
\* otherwise no capture file exists after run() raised.
C15_FailCapture ==
    FailPath =>
        IF catch_out = "False" THEN NoCaptureFile
        ELSE IF CaptureInCwd /\ (keep_tempdir \/ ~CwdInTempdir) THEN CaptureHoldsMessage
        ELSE CapturePath \notin DOMAIN files

\* a quiet run that exited non-zero left the composed message in the capture file
C15_Witness ==
    /\ FailPath /\ ~verbose /\ catch_out = "True" /\ Exited(FALSE)
    /\ Len(completed_process.stdout) > 0
    /\ CaptureHoldsMessage

Rank(step) ==
    CASE step = "prepare" -> 1
      [] step = "execute" -> 2
      [] step = "check" -> 3
      [] step = "isFailed" -> 4
      [] step \in {"finish", "fail"} -> 5
      [] step = "cleanup" -> 6

\* C16: within one run() the steps occur in the order prepare, execute,
\* classify, finish or fail (never both), cleanup, none repeated; execute runs
\* at most once and not at all when prepare fails; finish runs only after exit
\* code 0 and an empty isFailed(); IbexRun writes the script before the launch.
C16_StepOrder ==
    /\ \A i, j \in 1..Len(steps) : i < j => Rank(steps[i]) < Rank(steps[j])
    /\ Len(steps) >= 1 => steps[1] = "prepare"
    /\ RunEnded => steps[Len(steps)] = "cleanup"
    /\ Count("execute") <= 1
    /\ exc.raisedIn = "prepare" => ~Invoked("execute")
    /\ Invoked("finish") =>
          (Exited(TRUE) /\ Invoked("isFailed") /\ ~Truthy(failed_message))
    /\ (cls = "IbexRun" /\ (pc = "execute" \/ (Invoked("execute") /\ ~Invoked("cleanup")))) =>
          script_file \in DOMAIN files

\* a run ended after prepare, execute, both checks, fail and cleanup
C16_Witness ==
    /\ RunEnded
    /\ steps = <<"prepare", "execute", "check", "isFailed", "fail", "cleanup">>

\* the invocation description of Executor.__init__
description == <<program, args, cwd, tempdir, dir_out, catch_out, keep_tempdir, verbose>>

\* C18 as stated: once run() has begun no field of the invocation description
\* (program, argument list, working directory, temporary directory, output
\* directory, capture policy, keep flag, verbosity flag) changes.
C18_Original == [][pc # "new" => description' = description]_vars

\* C18 amended: once run() has begun every field of the invocation description
\* but tempdir keeps its value; a supplied tempdir keeps its value too, and a
\* tempdir left as None changes once, in prepare(), to the directory created.
C18_DescriptionFrame ==
    [][pc # "new" =>
          /\ <<program, args, cwd, dir_out, catch_out, keep_tempdir, verbose>>'
                = <<program, args, cwd, dir_out, catch_out, keep_tempdir, verbose>>
          /\ tempdir # None => tempdir' = tempdir
          /\ tempdir' # tempdir =>
                /\ pc = "prepare" /\ tempdir' \notin dirs /\ tempdir' \in dirs'
                /\ tempdir_created']_vars

\* run() ended for an instance constructed without a temporary directory, and
\* the field now names the directory prepare() created
C18_Witness ==
    /\ RunEnded /\ tempdir_created /\ tempdir = K
    /\ Invoked("prepare") /\ Invoked("cleanup")

\* run() raises the RunError of the except OSError clause
LaunchErrorRaised ==
    /\ RunEnded /\ outcome = "raised"
    /\ exc.kind = "RunError" /\ exc.msg = LaunchMessage(ENOENT)

\* C20: run() raises the "Couldn't run or communicate with external program"
\* RunError only when launching the process failed; an OS-level error in
\* prepare(), finish() or fail() is never reported as that, and an exit-0 run
\* whose predicate returned M is never reported with another payload than M.
C20_LaunchErrorOnly ==
    /\ LaunchErrorRaised =>
          (exc.raisedIn = "execute" /\ Invoked("execute") /\ completed_process.isNone)
    /\ (RunEnded /\ Exited(TRUE) /\ Invoked("isFailed") /\ Truthy(failed_message)) =>
          (outcome = "raised" /\ exc.msg = failed_message)

\* both runs of the invocation have ended
BothRunsEnded == twin.taken /\ RunEnded

\* C17: two runs that differ only in verbose, with the same behaviour of the
\* external process and the same initial filesystem, end with the same result
\* or the same error kind and payload, the same files (the capture file among
\* them) and the same directories (temporary and output directory among them).
C17_VerboseNoEffect ==
    /\ BothRunsEnded =>
          /\ outcome = twin.outcome
          /\ exc = twin.exc
          /\ result = twin.result
          /\ files = twin.files
          /\ dirs = twin.dirs
          /\ tempdir = twin.tempdir
          /\ completed_process = twin.completed_process
          /\ Invoked("execute") <=> twin.launched
    /\ (twin.taken /\ pc = "execute") =>
          /\ twin.launched
          /\ ~twin.completed_process.isNone => cwd \in dirs

\* a quiet run and then a verbose run of the same failing invocation ended:
\* only the verbose one logged the error, both left the message in the capture file
C17_Witness ==
    /\ BothRunsEnded /\ verbose /\ errlog # <<>>
    /\ Invoked("fail") /\ catch_out = "True" /\ keep_tempdir
    /\ CaptureHoldsMessage
    /\ twin.files = files

\* instance i holds a temporary directory: created, and not yet removed by
\* its cleanup()
InUse(i) ==
    \/ peers[i].pc \in {"execute", "cleanup"}
    \/ peers[i].pc = "done" /\ peers[i].keep_tempdir

\* no cleanup() removed the temporary directory of an instance that holds one
NoneRemoved == \A i \in Instances : InUse(i) => peers[i].tempdir \in dirs

\* C19 as stated: of concurrently running instances constructed without a
\* tempdir, each gets a temporary directory distinct from every other
\* instance's, and no cleanup() removes the temporary directory of another
\* instance that has not finished.
C19_Original ==
    /\ \A i, j \in Instances :
          (i # j /\ peers[i].tempdir # None /\ peers[j].tempdir # None) =>
              peers[i].tempdir # peers[j].tempdir
    /\ NoneRemoved

\* C19 amended: the temporary directories of two instances that hold one at
\* the same time are distinct (a name is taken again only after the cleanup()
\* of its former holder removed the directory), and no cleanup() removes the
\* temporary directory of another instance that has not finished.
C19_TempdirIsolation ==
    /\ \A i, j \in Instances :
          (i # j /\ InUse(i) /\ InUse(j)) => peers[i].tempdir # peers[j].tempdir
    /\ NoneRemoved
    /\ \A i \in Instances :
          (peers[i].pc = "done" /\ ~peers[i].keep_tempdir) =>
              \/ peers[i].tempdir \notin dirs
              \/ \E j \in Instances : j # i /\ InUse(j) /\ peers[j].tempdir = peers[i].tempdir

\* one instance finished and removed its directory while another, prepared
\* before that cleanup or after it, still holds its own
C19_Witness ==
    \E i, j \in Instances :
        /\ i # j
        /\ peers[i].pc = "done" /\ ~peers[i].keep_tempdir /\ peers[i].tempdir \notin dirs
        /\ peers[j].pc = "cleanup" /\ peers[j].tempdir \in dirs
        /\ peers[j].tempdir # peers[i].tempdir

\* path q is the temporary directory or lies inside it
InTempdir(q) == tempdir # None /\ IsPrefix(tempdir, q)

\* C21: cleanup() decides on the keep flag and on existence only: when
\* keep_tempdir is false and the configured temporary directory exists, the
\* directory and everything in it is removed and nothing else is, whoever
\* created it (the caller's path, a directory with the caller's own content,
\* an overridden prepare()); when keep_tempdir is true nothing is removed.
C21_CleanupRule ==
    [][pc = "cleanup" =>
          IF ~keep_tempdir /\ tempdir # None /\ tempdir \in dirs
          THEN /\ \A q \in dirs' \cup DOMAIN files' : ~InTempdir(q)
               /\ \A q \in dirs : ~InTempdir(q) => q \in dirs'
               /\ \A q \in DOMAIN files :
                     ~InTempdir(q) => (q \in DOMAIN files' /\ files'[q] = files[q])
          ELSE dirs' = dirs /\ files' = files]_vars

\* an IbexRun given the caller's own directory as tempdir, which existed
\* before run() and held the caller's file, ended with the directory and the
\* file removed
C21_Witness ==
    /\ RunEnded /\ cls = "IbexRun" /\ ~keep_tempdir /\ ~tempdir_created
    /\ tempdir = T /\ T \in twin.dirs0 /\ T \o <<"user.txt">> \in DOMAIN twin.files0
    /\ T \notin dirs /\ T \o <<"user.txt">> \notin DOMAIN files

====
